---- MODULE Spec2Model ----
(***************************************************************************)
(* State-machine model of category/mpt/bench/mpt_bench.cpp: the synthetic  *)
(* workload generator, the per-batch deduplication maps, the intrusive     *)
(* Update / UpdateList assembly and the versioned commit loop of main().   *)
(* The store (monad::mpt::Db) is an external collaborator: its calls       *)
(* return opaque handles or throw.                                         *)
(***************************************************************************)
EXTENDS Integers, Sequences, FiniteSets, TLC

\* ------------------------------------------------------------------ bounds
\* Largest values of the command-line integers explored by the model.
MaxAccounts == 3
MaxSlots == 2
MaxModify == 2
MaxCommit == 2
\* Random slot writes per modified account (the source draws 100, line 225).
ModWrites == 2
\* Cap on the store calls of a batch loop that never advances (kCommit <= 0).
MaxCalls == 3

\* ------------------------------------------------------- program constants
\* Offset added to every phase-2 version (line 258).
VersionOffset == 1000000
\* (uint64_t)-1 of line 122, scaled to the largest integer TLC represents.
Uint64Max == 2147483647

\* Values db.get_latest_version() may report: 0, real versions, (uint64_t)-1.
LatestVersions == {0, 5, Uint64Max}

VARIABLES
    nAccounts, nSlots, mModify, kCommit,  \* CLI integers (lines 64-67)
    pc,                 \* position of main()
    fault,              \* why the process died without a store error
    latest_version,     \* line 120
    root,               \* Node::SharedPtr root (line 121)
    addrs,              \* std::vector<byte_string> addrs (line 126)
    totalSlotsModified, \* line 206
    i, j, batchEnd,     \* loop variables of the batch loops
    batchData,          \* batchData / batchModData: std::map, kept sorted
    accountUpdates,     \* std::list<Update>
    slotUpdateLists,    \* std::list<UpdateList>
    slotUpdatesPerAccount, \* std::list<std::list<Update>>
    batchUpdateList,    \* UpdateList: addresses of the linked account nodes
    nextAddr,           \* number of the next node allocated in this batch
    indices, sh,        \* std::vector<int> indices and the shuffle index
    inflight,           \* arguments of the db.upsert call in progress
    calls               \* completed db.upsert calls, in call order

vars == <<nAccounts, nSlots, mModify, kCommit, pc, fault, latest_version, root,
          addrs, totalSlotsModified, i, j, batchEnd,
          batchData, accountUpdates, slotUpdateLists, slotUpdatesPerAccount,
          batchUpdateList, nextAddr, indices, sh, inflight, calls>>

\* ----------------------------------------------------------------- helpers
Min(a, b) == IF a < b THEN a ELSE b
Abs(a) == IF a < 0 THEN -a ELSE a

\* C++ integer division truncates toward zero.
CDiv(a, b) ==
    LET q == Abs(a) \div Abs(b) IN IF (a < 0) # (b < 0) THEN -q ELSE q

\* std::string arguments of hash_string, as sequences of small numbers.
AccountName(idx) == <<0, idx>>
SlotName(idx, s) == <<1, idx, s>>

RECURSIVE Mix(_, _)
Mix(h, s) == IF s = <<>> THEN h ELSE Mix(h * 16 + Head(s) + 1, Tail(s))

\* hash_string: a fixed-length digest, injective on the names used and not
\* monotone in the account or slot index.
hash_string(s) ==
    LET h == Mix(0, s) IN <<(h * 11) % 7, h \div 256, h % 256>>

\* operator< of monad::byte_string: lexicographic order on the bytes.
RECURSIVE BytesLess(_, _)
BytesLess(a, b) ==
    IF b = <<>> THEN FALSE
    ELSE IF a = <<>> THEN TRUE
    ELSE IF Head(a) # Head(b) THEN Head(a) < Head(b)
    ELSE BytesLess(Tail(a), Tail(b))

\* Account and slot values are byte strings drawn from r(); the model keeps
\* one token for a value that was written, whatever its bytes.
Bytes == "bytes"

\* ------------------------------------------------------ std::map (sorted)
\* A map is the sequence of its entries [key, val] in ascending key order.
MapKeys(m) == [k \in 1..Len(m) |-> m[k].key]
MapHas(m, key) == \E k \in 1..Len(m) : m[k].key = key
MapIndex(m, key) == CHOOSE k \in 1..Len(m) : m[k].key = key
MapGet(m, key) == m[MapIndex(m, key)].val

\* (variant) an insert that never finds the existing entry, as a multimap.
MapPut_Multi(m, key, val) ==
    LET below == Cardinality({k \in 1..Len(m) : BytesLess(m[k].key, key)})
    IN  SubSeq(m, 1, below) \o <<[key |-> key, val |-> val]>>
        \o SubSeq(m, below + 1, Len(m))

\* m[key] = val of std::map: overwrite the entry, or insert it in key order.
MapPut(m, key, val) ==
    IF MapHas(m, key)
    THEN [m EXCEPT ![MapIndex(m, key)].val = val]
    ELSE LET below == Cardinality({k \in 1..Len(m) : BytesLess(m[k].key, key)})
         IN  SubSeq(m, 1, below) \o <<[key |-> key, val |-> val]>>
             \o SubSeq(m, below + 1, Len(m))

\* A default-constructed AccountData.
EmptyAccount == [value |-> "none", slots |-> <<>>]

\* batchData[key]: the entry, default-constructed when absent.
MapAt(m, key) == IF MapHas(m, key) THEN MapGet(m, key) ELSE EmptyAccount

\* ------------------------------------------------- Update / UpdateList
\* make_update(key, value) and make_update(key, std::move(next)).
make_update(key, value, next) == [key |-> key, value |-> value, next |-> next]

\* (variant) std::vector::push_back that reallocates: every element already
\* stored moves to a new address.
vector_push_back(cont, u, a) ==
    Append([k \in 1..Len(cont) |->
               [cont[k] EXCEPT !.addr = <<cont[k].addr[1], cont[k].addr[2] + 100>>]],
           [addr |-> a, key |-> u.key, value |-> u.value, next |-> u.next])

\* std::list::push_back: the new element gets a fresh address, the elements
\* already stored keep theirs.
list_push_back(cont, u, a) ==
    Append(cont, [addr |-> a, key |-> u.key, value |-> u.value, next |-> u.next])

\* (variant) linking at the tail instead of the head.
push_back_link(list, a) == Append(list, a)

\* UpdateList::push_front: the linked node becomes the new head.
push_front(list, a) == <<a>> \o list

\* ------------------------------------------------------------- the store
NullRoot == [kind |-> "null", id |-> 0]
load_root_for_version(v) == [kind |-> "loaded", id |-> v]
\* The Root returned by the n-th db.upsert call: a fresh opaque handle.
UpsertResult(n) == [kind |-> "upsert", id |-> n]
NoCall == [phase |-> 0, root |-> NullRoot, updates |-> <<>>, version |-> 0]

\* (variant) the test without the (uint64_t)-1 comparison.
HasPriorVersion_NonZero(lv) == lv # 0

\* Line 122: is there a version to resume from?
HasPriorVersion(lv) == lv # 0 /\ lv # Uint64Max

\* Lines 190 and 258: the version of the batch starting at index idx, given
\* the quotient q of idx / kCommit.
\* (variants) versions counted from 0; phase 2 without its offset.
Phase1Version_FromZero(q) == q
Phase2Version_NoOffset(q) == q + 1
Phase1Version(q) == q + 1
Phase2Version(q) == VersionOffset + q + 1

\* (variant) the returned root is dropped and the old handle kept.
RootAfterUpsert_Stale(passed, returned) == passed

\* Lines 191 and 259: root = db.upsert(std::move(root), ...).
RootAfterUpsert(passed, returned) == returned

\* --------------------------------------------------------------- Init
Init ==
    /\ nAccounts \in -1..MaxAccounts
    /\ nSlots \in 0..MaxSlots
    /\ mModify \in -1..MaxModify
    /\ kCommit \in -1..MaxCommit
    /\ pc = "start"
    /\ fault = "none"
    /\ latest_version = 0
    /\ root = NullRoot
    /\ addrs = <<>>
    /\ totalSlotsModified = 0
    /\ i = 0 /\ j = 0 /\ batchEnd = 0
    /\ batchData = <<>>
    /\ accountUpdates = <<>>
    /\ slotUpdateLists = <<>>
    /\ slotUpdatesPerAccount = <<>>
    /\ batchUpdateList = <<>>
    /\ nextAddr = 1
    /\ indices = <<>>
    /\ sh = 0
    /\ inflight = NoCall
    /\ calls = <<>>

\* Lines 120-131: query the store, load the root, reserve addrs.
\* addrs.reserve of a negative int converts to a huge size_t and throws
\* std::length_error, which nothing catches.
Start ==
    /\ pc = "start"
    /\ \E lv \in LatestVersions :
          /\ latest_version' = lv
          /\ root' = IF HasPriorVersion(lv) THEN load_root_for_version(lv)
                     ELSE NullRoot
    /\ IF nAccounts < 0
       THEN pc' = "crashed" /\ fault' = "length_error"
       ELSE pc' = "p1_head" /\ fault' = fault
    /\ UNCHANGED <<nAccounts, nSlots, mModify, kCommit, addrs,
                   totalSlotsModified, i, j, batchEnd,
                   batchData, accountUpdates, slotUpdateLists,
                   slotUpdatesPerAccount, batchUpdateList, nextAddr, indices,
                   sh, inflight, calls>>

\* ------------------------------------------------- shared loop fragments
\* Everything main() does not touch inside one batch.
Inputs == <<nAccounts, nSlots, kCommit, latest_version>>

\* The process dies without a store error (a trap or an uncaught exception).
Crash(why) == pc' = "crashed" /\ fault' = why

\* The address of the n-th node allocated in the current batch.  Memory
\* freed by an earlier batch may be handed out again; the batch number keeps
\* the nodes of different batches apart.
Addr(n) == <<Len(calls) + 1, n>>

\* Lines 180-183 / 249-252: one slot Update per entry of the slot map, each
\* stored in currentAccountSlots and linked at the head of the slot list.
\* st = [nodes |-> currentAccountSlots, list |-> currentSlotUpdateList].
RECURSIVE BuildSlots(_, _, _, _)
BuildSlots(slots, k, st, base) ==
    IF k > Len(slots) THEN st
    ELSE LET nodes == list_push_back(
                 st.nodes, make_update(slots[k].key, slots[k].val, <<>>),
                 Addr(base + k - 1))
         IN  BuildSlots(slots, k + 1,
                 [nodes |-> nodes,
                  list |-> push_front(st.list, nodes[Len(nodes)].addr)],
                 base)

\* Lines 174-188 / 243-256: one iteration of the loop over the batch map;
\* the iterator stands at the entry after those already built.
BuildAccount(keepValue, donePc) ==
    LET entry == batchData[Len(accountUpdates) + 1]
        built == BuildSlots(entry.val.slots, 1,
                            [nodes |-> <<>>, list |-> <<>>], nextAddr)
        a     == nextAddr + Len(entry.val.slots)
        u     == make_update(entry.key,
                             IF keepValue THEN entry.val.value ELSE "none",
                             built.list)
        accs  == list_push_back(accountUpdates, u, Addr(a))
    IN  /\ slotUpdateLists' = Append(slotUpdateLists, <<>>)
        /\ slotUpdatesPerAccount' = Append(slotUpdatesPerAccount, built.nodes)
        /\ accountUpdates' = accs
        /\ batchUpdateList' = push_front(batchUpdateList, accs[Len(accs)].addr)
        /\ nextAddr' = a + 1
        /\ pc' = IF Len(accs) < Len(batchData) THEN pc ELSE donePc

\* The key of the account node stored at address a, if one is stored there.
KeyAt(a) ==
    IF \E k \in 1..Len(accountUpdates) : accountUpdates[k].addr = a
    THEN accountUpdates[CHOOSE k \in 1..Len(accountUpdates) :
                            accountUpdates[k].addr = a].key
    ELSE <<>>

\* root = db.upsert(std::move(root), std::move(batchUpdateList), version):
\* the call consumes the root and the list.
CallUpsert(phase, version) ==
    /\ inflight' = [phase |-> phase, root |-> root,
                    updates |-> batchUpdateList, version |-> version]
    /\ root' = NullRoot
    /\ batchUpdateList' = <<>>
    /\ pc' = "upsert"
    /\ fault' = fault

\* ----------------------------------------------------------------- phase 1
\* Lines 133-141: loop test, batchEnd, a fresh batchData.
P1Head ==
    /\ pc = "p1_head"
    /\ IF i < nAccounts
       THEN /\ batchEnd' = Min(i + kCommit, nAccounts)
            /\ j' = i
            /\ pc' = IF i < batchEnd' THEN "p1_gen" ELSE "p1_commit"
       ELSE /\ pc' = "p2_init"
            /\ UNCHANGED <<batchEnd, j>>
    /\ UNCHANGED <<Inputs, mModify, fault, root, addrs, totalSlotsModified, i, batchData, accountUpdates,
                   slotUpdateLists, slotUpdatesPerAccount, batchUpdateList,
                   nextAddr, indices, sh, inflight, calls>>

\* Lines 153-165: acc.slots[sKey] = sVal for the slots s..vSlots-1 of
\* account idx.
RECURSIVE PutSlots(_, _, _, _)
PutSlots(slots, idx, vSlots, s) ==
    IF s >= vSlots THEN slots
    ELSE PutSlots(MapPut(slots, hash_string(SlotName(idx, s)), Bytes),
                  idx, vSlots, s + 1)

\* Lines 144-165 for account j with vSlots slots.
P1Account(vSlots) ==
    LET addrHash == hash_string(AccountName(j))
        acc      == MapAt(batchData, addrHash)
    IN  /\ addrs' = IF Len(addrs) <= j THEN Append(addrs, addrHash) ELSE addrs
        /\ batchData' = MapPut(batchData, addrHash,
                               [value |-> Bytes,
                                slots |-> PutSlots(acc.slots, j, vSlots, 0)])

\* Lines 143-166: one account of the batch.  r() % (nSlots * 2) with
\* nSlots = 0 is a modulo by zero: the process traps, or the operation yields
\* some value.
P1Gen ==
    /\ pc = "p1_gen"
    /\ \/ /\ nSlots * 2 # 0
          /\ \E vSlots \in 0..(nSlots * 2 - 1) : P1Account(vSlots)
          /\ j' = j + 1
          /\ pc' = IF j + 1 < batchEnd THEN "p1_gen" ELSE "p1_build"
          /\ fault' = fault
       \/ /\ nSlots * 2 = 0
          /\ \E vSlots \in {0, MaxSlots} : P1Account(vSlots)
          /\ j' = j + 1
          /\ pc' = IF j + 1 < batchEnd THEN "p1_gen" ELSE "p1_build"
          /\ fault' = fault
       \/ /\ nSlots * 2 = 0
          /\ P1Account(0)
          /\ Crash("div_zero")
          /\ j' = j
    /\ UNCHANGED <<Inputs, mModify, root, totalSlotsModified, i, batchEnd,
                   accountUpdates, slotUpdateLists, slotUpdatesPerAccount,
                   batchUpdateList, nextAddr, indices, sh, inflight, calls>>

\* Lines 169-188: one account of batchData, in map order.
P1Build ==
    /\ pc = "p1_build"
    /\ BuildAccount(TRUE, "p1_commit")
    /\ UNCHANGED <<Inputs, mModify, fault, root, addrs, totalSlotsModified, i, j, batchEnd, batchData, indices, sh,
                   inflight, calls>>

\* Lines 190-191: the version and the call.  i / kCommit with kCommit = 0 is
\* a division by zero: the process traps, or the quotient is some value.
P1Commit ==
    /\ pc = "p1_commit"
    /\ kCommit >= 1 \/ Len(calls) < MaxCalls
    /\ \/ /\ kCommit # 0
          /\ CallUpsert(1, Phase1Version(CDiv(i, kCommit)))
       \/ /\ kCommit = 0
          /\ CallUpsert(1, Phase1Version(0))
       \/ /\ kCommit = 0
          /\ Crash("div_zero")
          /\ UNCHANGED <<inflight, root, batchUpdateList>>
    /\ UNCHANGED <<Inputs, mModify, addrs, totalSlotsModified, i, j, batchEnd, batchData,
                   accountUpdates, slotUpdateLists, slotUpdatesPerAccount,
                   nextAddr, indices, sh, calls>>

\* ----------------------------------------------------------------- phase 2
\* (variant) an assignment instead of a swap.
swap_Overwrite(v, a, b) == [v EXCEPT ![a + 1] = v[b + 1]]

\* std::swap of two elements of a vector (0-based positions a and b).
swap(v, a, b) == [v EXCEPT ![a + 1] = v[b + 1], ![b + 1] = v[a + 1]]

\* Lines 203-209: clamp mModify, reset the counter, indices = 0..nAccounts-1.
P2Init ==
    /\ pc = "p2_init"
    /\ mModify' = Min(mModify, nAccounts)
    /\ totalSlotsModified' = 0
    /\ indices' = [k \in 1..nAccounts |-> k - 1]
    /\ sh' = nAccounts - 1
    /\ i' = 0
    /\ pc' = IF nAccounts - 1 > 0 THEN "shuffle" ELSE "p2_head"
    /\ UNCHANGED <<Inputs, fault, root, addrs, j, batchEnd,
                   batchData, accountUpdates, slotUpdateLists,
                   slotUpdatesPerAccount, batchUpdateList, nextAddr, inflight,
                   calls>>

\* Lines 211-213: one iteration of the shuffle, with t = r() % (sh + 1).
Shuffle ==
    /\ pc = "shuffle"
    /\ \E t \in 0..sh : indices' = swap(indices, sh, t)
    /\ sh' = sh - 1
    /\ pc' = IF sh - 1 > 0 THEN "shuffle" ELSE "p2_head"
    /\ UNCHANGED <<Inputs, mModify, fault, root, addrs, totalSlotsModified, i, j, batchEnd, batchData,
                   accountUpdates, slotUpdateLists, slotUpdatesPerAccount,
                   batchUpdateList, nextAddr, inflight, calls>>

\* Lines 215-219: loop test, batchEnd, a fresh batchModData; past the loop,
\* the report of lines 263-272 and return 0.
P2Head ==
    /\ pc = "p2_head"
    /\ IF i < mModify
       THEN /\ batchEnd' = Min(i + kCommit, mModify)
            /\ j' = i
            /\ pc' = IF i < batchEnd' THEN "p2_gen" ELSE "p2_commit"
       ELSE /\ pc' = "done"
            /\ UNCHANGED <<batchEnd, j>>
    /\ UNCHANGED <<Inputs, mModify, fault, root, addrs, totalSlotsModified, i, batchData, accountUpdates,
                   slotUpdateLists, slotUpdatesPerAccount, batchUpdateList,
                   nextAddr, indices, sh, inflight, calls>>

\* Lines 225-234: batchModData[addrHash][sKey] = sVal for the slot indices
\* idxs drawn for account accountIdx.
RECURSIVE ModSlots(_, _, _, _, _)
ModSlots(m, addrHash, accountIdx, idxs, s) ==
    IF s > Len(idxs) THEN m
    ELSE LET acc  == MapAt(m, addrHash)
             sKey == hash_string(SlotName(accountIdx, idxs[s]))
         IN  ModSlots(MapPut(m, addrHash,
                             [value |-> acc.value,
                              slots |-> MapPut(acc.slots, sKey, Bytes)]),
                      addrHash, accountIdx, idxs, s + 1)

\* Lines 221-235: one account of the batch.  r() % nSlots with nSlots = 0 is
\* a modulo by zero: the process traps, or the operation yields some value.
\* A read of indices or addrs past the end would be out of range.
P2Gen ==
    /\ pc = "p2_gen"
    /\ \/ /\ j < Len(indices) /\ indices[j + 1] < Len(addrs)
          /\ \E idxs \in [1..ModWrites ->
                            IF nSlots # 0 THEN 0..(nSlots - 1) ELSE {0, MaxSlots}] :
                batchData' = ModSlots(batchData, addrs[indices[j + 1] + 1],
                                      indices[j + 1], idxs, 1)
          /\ totalSlotsModified' = totalSlotsModified + ModWrites
          /\ j' = j + 1
          /\ pc' = IF j + 1 < batchEnd THEN "p2_gen" ELSE "p2_build"
          /\ fault' = fault
       \/ /\ j < Len(indices) /\ indices[j + 1] < Len(addrs)
          /\ nSlots = 0
          /\ Crash("div_zero")
          /\ UNCHANGED <<batchData, totalSlotsModified, j>>
       \/ /\ ~(j < Len(indices) /\ indices[j + 1] < Len(addrs))
          /\ Crash("out_of_range")
          /\ UNCHANGED <<batchData, totalSlotsModified, j>>
    /\ UNCHANGED <<Inputs, mModify, root, addrs, i,
                   batchEnd, accountUpdates, slotUpdateLists,
                   slotUpdatesPerAccount, batchUpdateList, nextAddr, indices,
                   sh, inflight, calls>>

\* Lines 238-256: one account of batchModData, in map order.
P2Build ==
    /\ pc = "p2_build"
    /\ BuildAccount(FALSE, "p2_commit")
    /\ UNCHANGED <<Inputs, mModify, fault, root, addrs, totalSlotsModified, i, j, batchEnd, batchData, indices, sh,
                   inflight, calls>>

\* Lines 258-259: the version and the call.
P2Commit ==
    /\ pc = "p2_commit"
    /\ kCommit >= 1 \/ Len(calls) < MaxCalls
    /\ \/ /\ kCommit # 0
          /\ CallUpsert(2, Phase2Version(CDiv(i, kCommit)))
       \/ /\ kCommit = 0
          /\ CallUpsert(2, Phase2Version(0))
       \/ /\ kCommit = 0
          /\ Crash("div_zero")
          /\ UNCHANGED <<inflight, root, batchUpdateList>>
    /\ UNCHANGED <<Inputs, mModify, addrs, totalSlotsModified, i, j, batchEnd, batchData,
                   accountUpdates, slotUpdateLists, slotUpdatesPerAccount,
                   nextAddr, indices, sh, calls>>

\* ------------------------------------------------------------- the call
\* Lines 191-195 / 259-261: db.upsert returns; the new root replaces the old
\* one, the batch scope ends (its containers and maps are destroyed) and the
\* loop advances by kCommit.
UpsertReturn ==
    /\ pc = "upsert"
    /\ LET ret == UpsertResult(Len(calls) + 1)
       IN  /\ root' = RootAfterUpsert(inflight.root, ret)
           /\ calls' = Append(calls,
                  [phase |-> inflight.phase, rootIn |-> inflight.root,
                   rootOut |-> ret, version |-> inflight.version,
                   keys |-> [k \in 1..Len(inflight.updates) |->
                                KeyAt(inflight.updates[k])]])
    /\ inflight' = NoCall
    /\ accountUpdates' = <<>>
    /\ slotUpdateLists' = <<>>
    /\ slotUpdatesPerAccount' = <<>>
    /\ batchData' = <<>>
    /\ nextAddr' = 1
    /\ i' = i + kCommit
    /\ j' = 0
    /\ batchEnd' = 0
    /\ pc' = IF inflight.phase = 1 THEN "p1_head" ELSE "p2_head"
    /\ UNCHANGED <<Inputs, mModify, fault, addrs, totalSlotsModified, batchUpdateList, indices, sh>>

\* db.upsert throws: nothing catches it and the run aborts.
UpsertThrow ==
    /\ pc = "upsert"
    /\ pc' = "aborted"
    /\ UNCHANGED <<Inputs, mModify, fault, root, addrs, totalSlotsModified, i, j, batchEnd, batchData,
                   accountUpdates, slotUpdateLists, slotUpdatesPerAccount,
                   batchUpdateList, nextAddr, indices, sh, inflight, calls>>

Next ==
    \/ Start
    \/ P1Head
    \/ P1Gen
    \/ P1Build
    \/ P1Commit
    \/ P2Init
    \/ Shuffle
    \/ P2Head
    \/ P2Gen
    \/ P2Build
    \/ P2Commit
    \/ UpsertReturn
    \/ UpsertThrow

Spec == Init /\ [][Next]_vars

\* main() is sequential: whenever a step is possible it is eventually taken.
FairSpec == Init /\ [][Next]_vars /\ WF_vars(Next)

\* ============================================================ properties
Range(seq) == {seq[k] : k \in 1..Len(seq)}
Reverse(seq) == [k \in 1..Len(seq) |-> seq[Len(seq) + 1 - k]]
StrictlyAscending(keys) ==
    \A a, b \in 1..Len(keys) : a < b => BytesLess(keys[a], keys[b])
Ceil(x, k) == -((-x) \div k)
Max(a, b) == IF a > b THEN a ELSE b

\* The db.upsert calls made so far, in call order, the one in progress (or
\* the one that threw) last.
Passed ==
    [k \in 1..(Len(calls) + IF inflight.phase # 0 THEN 1 ELSE 0) |->
        IF k <= Len(calls)
        THEN [phase |-> calls[k].phase, rootIn |-> calls[k].rootIn,
              version |-> calls[k].version]
        ELSE [phase |-> inflight.phase, rootIn |-> inflight.root,
              version |-> inflight.version]]
PassedIn(phase) == {k \in 1..Len(Passed) : Passed[k].phase = phase}

\* The batch UpdateList, in the driver's hands or in the store's.
CurrentList ==
    IF inflight.phase # 0 THEN inflight.updates ELSE batchUpdateList
\* The build loop of the batch has finished.
Assembled == pc \in {"p1_commit", "p2_commit", "upsert"}
\* The phase-1 loop has exited normally.
Phase1Done ==
    \/ pc \in {"p2_init", "shuffle", "p2_head", "p2_gen", "p2_build",
               "p2_commit", "done"}
    \/ pc = "upsert" /\ inflight.phase = 2
\* indices has been filled by std::iota.
IndicesReady == Phase1Done /\ pc # "p2_init"

NoNode == [addr |-> <<0, 0>>, key |-> <<>>, value |-> "none", next |-> <<>>]
AccountNodes == Range(accountUpdates)
SlotNodes ==
    UNION {Range(slotUpdatesPerAccount[k]) : k \in 1..Len(slotUpdatesPerAccount)}
NodeAt(nodes, a) ==
    IF \E n \in nodes : n.addr = a THEN CHOOSE n \in nodes : n.addr = a
    ELSE NoNode
ListKeys(nodes, list) == [k \in 1..Len(list) |-> NodeAt(nodes, list[k]).key]
SlotMapOf(key) == MapAt(batchData, key).slots

\* Account keys of the completed phase-2 calls, in commit order.
RECURSIVE Phase2Keys(_)
Phase2Keys(k) ==
    IF k > Len(calls) THEN <<>>
    ELSE (IF calls[k].phase = 2 THEN calls[k].keys ELSE <<>>)
         \o Phase2Keys(k + 1)

\* C1: with kCommit >= 1, the versions passed to db.upsert, in call order over
\* both phases, strictly increase, and no phase-2 version equals a phase-1
\* version.
C1_VersionsIncrease ==
    kCommit >= 1 =>
        /\ \A a, b \in 1..Len(Passed) :
              a < b => Passed[a].version < Passed[b].version
        /\ \A a \in PassedIn(1), b \in PassedIn(2) :
              Passed[a].version # Passed[b].version
C1_Witness ==
    /\ pc = "done" /\ kCommit >= 1
    /\ Cardinality(PassedIn(1)) >= 2 /\ Cardinality(PassedIn(2)) >= 2

\* C2: every db.upsert call after the first receives the Root the preceding
\* call returned, the first receives the loaded root or the absent root, no
\* Root is passed twice, and the driver holds no Root while a call has it.
C2_RootChain ==
    /\ Len(Passed) >= 1 =>
          Passed[1].rootIn \in {NullRoot, load_root_for_version(latest_version)}
    /\ \A k \in 2..Len(Passed) : Passed[k].rootIn = calls[k - 1].rootOut
    /\ \A a, b \in 1..Len(Passed) : a < b => Passed[a].rootIn # Passed[b].rootIn
    /\ inflight.phase # 0 => root = NullRoot
    /\ (inflight.phase = 0 /\ Len(calls) >= 1) => root = calls[Len(calls)].rootOut
C2_Witness ==
    /\ Len(calls) >= 3
    /\ calls[1].rootIn.kind = "loaded"
    /\ calls[2].phase = 1 /\ calls[3].phase = 2

\* C3: in every assembled batch the UpdateList holds each Address once and
\* each slot list holds each SlotKey once: as many account nodes as distinct
\* keys of the batch map, as many slot nodes under an account as distinct
\* keys of its slot map.
C3_Dedup ==
    Assembled =>
        /\ Len(CurrentList) = Cardinality(Range(MapKeys(batchData)))
        /\ Cardinality(Range(ListKeys(AccountNodes, CurrentList)))
              = Len(CurrentList)
        /\ \A a \in Range(CurrentList) :
              LET n == NodeAt(AccountNodes, a)
              IN  /\ Len(n.next) = Cardinality(Range(MapKeys(SlotMapOf(n.key))))
                  /\ Cardinality(Range(ListKeys(SlotNodes, n.next)))
                        = Len(n.next)
\* A phase-2 batch in which several raw writes hit one slot key.
C3_Witness ==
    /\ pc = "p2_commit"
    /\ Len(CurrentList) >= 2
    /\ \E a \in Range(CurrentList) :
          LET n == NodeAt(AccountNodes, a)
          IN  Len(n.next) >= 1 /\ Len(n.next) < ModWrites

\* C4: the run with nAccounts = 2, kCommit = 1, nSlots = 0 performs two
\* single-account phase-1 batches and commits them at versions 1 and 2.
C4_EndToEnd ==
    (nAccounts = 2 /\ kCommit = 1 /\ nSlots = 0 /\ pc \in {"done", "crashed"})
    => /\ Cardinality({k \in 1..Len(calls) : calls[k].phase = 1}) = 2
       /\ calls[1].phase = 1 /\ calls[1].version = 1 /\ Len(calls[1].keys) = 1
       /\ calls[2].phase = 1 /\ calls[2].version = 2 /\ Len(calls[2].keys) = 1

\* C5: every run eventually reaches the final report (exit code 0) or aborts
\* on a store error, and ends in no other way.
C5_Terminates == <>(pc \in {"done", "aborted"})

\* C6 (as stated): for every latest version other than (uint64_t)-1 the first
\* db.upsert receives the root loaded for that version, and the absent root
\* only for (uint64_t)-1.
C6_AnyNonSentinel ==
    Len(Passed) >= 1 =>
        Passed[1].rootIn = IF latest_version = Uint64Max THEN NullRoot
                           ELSE load_root_for_version(latest_version)
\* C6: the latest version is queried before phase 1; the first db.upsert
\* receives the root loaded for it unless it is 0 or (uint64_t)-1, and the
\* absent root in those two cases.
C6_Resume ==
    LET expected == IF latest_version = 0 \/ latest_version = Uint64Max
                    THEN NullRoot
                    ELSE load_root_for_version(latest_version)
    IN  /\ Len(Passed) >= 1 => Passed[1].rootIn = expected
        /\ (pc = "p1_head" /\ calls = <<>>) => root = expected
C6_Witness ==
    /\ Len(calls) >= 1
    /\ calls[1].rootIn = load_root_for_version(latest_version)
    /\ latest_version # 0

\* C7: in every assembled batch the account nodes stand in the UpdateList in
\* the reverse of the ascending byte order of their Addresses, and the slot
\* nodes of each account in the reverse of the ascending order of their
\* SlotKeys.
C7_PrependOrder ==
    Assembled =>
        /\ StrictlyAscending(Reverse(ListKeys(AccountNodes, CurrentList)))
        /\ Range(ListKeys(AccountNodes, CurrentList)) = Range(MapKeys(batchData))
        /\ \A a \in Range(CurrentList) :
              LET n == NodeAt(AccountNodes, a)
              IN  /\ StrictlyAscending(Reverse(ListKeys(SlotNodes, n.next)))
                  /\ Range(ListKeys(SlotNodes, n.next))
                        = Range(MapKeys(SlotMapOf(n.key)))
C7_Witness ==
    /\ pc = "upsert"
    /\ Len(CurrentList) >= 2
    /\ \E a \in Range(CurrentList) : Len(NodeAt(AccountNodes, a).next) >= 2

\* C8: every node and slot list reachable from the batch UpdateList is stored
\* at the address it was linked at, with the map entry it refers to, until
\* db.upsert has returned; all of it is released before the next batch
\* creates a node; no list refers to a node of another batch.
C8_BatchLifetime ==
    /\ Range(CurrentList) \subseteq {n.addr : n \in AccountNodes}
    /\ \A k \in 1..Len(accountUpdates) :
          /\ Range(accountUpdates[k].next)
                \subseteq {n.addr : n \in Range(slotUpdatesPerAccount[k])}
          /\ MapHas(batchData, accountUpdates[k].key)
          /\ \A n \in Range(slotUpdatesPerAccount[k]) :
                MapHas(SlotMapOf(accountUpdates[k].key), n.key)
    /\ \A n \in AccountNodes \cup SlotNodes : n.addr[1] = Len(calls) + 1
    /\ pc \in {"start", "p1_head", "p1_gen", "p2_init", "shuffle", "p2_head",
               "p2_gen", "done"}
          => /\ accountUpdates = <<>> /\ slotUpdatesPerAccount = <<>>
             /\ slotUpdateLists = <<>> /\ batchUpdateList = <<>>
    /\ pc \in {"start", "p1_head", "p2_init", "shuffle", "p2_head", "done"}
          => batchData = <<>>
\* The second batch of a run is in the store's hands, with slots.
C8_Witness ==
    /\ pc = "upsert" /\ Len(calls) >= 1
    /\ Len(accountUpdates) >= 2
    /\ SlotNodes # {}

\* The version schedule of both phases with m accounts to modify.
VersionSchedule(m) ==
    (kCommit >= 1 /\ nAccounts >= 0) =>
        /\ \A k \in 1..Len(Passed) :
              Passed[k].version =
                 IF Passed[k].phase = 1 THEN k
                 ELSE VersionOffset + (k - Cardinality(PassedIn(1)))
        /\ \A k \in PassedIn(1), l \in PassedIn(2) : k < l
        /\ pc = "upsert" =>
              inflight.version = (IF inflight.phase = 2 THEN VersionOffset ELSE 0)
                                 + (i \div kCommit) + 1
        /\ Phase1Done => Cardinality(PassedIn(1)) = Ceil(nAccounts, kCommit)
        /\ pc = "done" => Cardinality(PassedIn(2)) = Ceil(m, kCommit)
        /\ mModify = 0 => (PassedIn(2) = {} /\ totalSlotsModified = 0)

\* C9 (as stated): phase 1 issues ceil(nAccounts/kCommit) calls at versions
\* 1, 2, ..., phase 2 issues ceil(min(mModify,nAccounts)/kCommit) calls at
\* versions 1000000 + 1, ...; with mModify = 0 phase 2 issues none.
C9_ScheduleAsStated == VersionSchedule(Min(mModify, nAccounts))
\* C9: the same schedule, with phase 2 issuing
\* ceil(max(0, min(mModify,nAccounts))/kCommit) calls in a run that reaches
\* the final report.
C9_Schedule == VersionSchedule(Max(0, Min(mModify, nAccounts)))
C9_Witness ==
    /\ pc = "done" /\ nAccounts = 3 /\ kCommit = 2 /\ mModify = 2
    /\ Cardinality(PassedIn(1)) = 2 /\ Cardinality(PassedIn(2)) = 1

\* Address memoization, the shuffled indices and the accounts of phase 2,
\* with m accounts modified.
Phase2Accounts(m) ==
    (kCommit >= 1 /\ nAccounts >= 0) =>
        /\ Phase1Done =>
              /\ Len(addrs) = nAccounts
              /\ \A idx \in 0..(nAccounts - 1) :
                    addrs[idx + 1] = hash_string(AccountName(idx))
        /\ IndicesReady =>
              /\ Len(indices) = nAccounts
              /\ Range(indices) = 0..(nAccounts - 1)
        /\ fault # "out_of_range"
        /\ Cardinality(Range(Phase2Keys(1))) = Len(Phase2Keys(1))
        /\ Range(Phase2Keys(1)) \subseteq Range(addrs)
        /\ pc = "done" => Len(Phase2Keys(1)) = m

\* C10 (as stated): phase 2 modifies exactly min(mModify,nAccounts) distinct
\* accounts.
C10_AccountsAsStated == Phase2Accounts(Min(mModify, nAccounts))
\* C10: after phase 1 addrs holds the Address of account j at entry j,
\* indices is a permutation of 0..nAccounts-1, phase 2 modifies exactly
\* max(0, min(mModify,nAccounts)) pairwise-distinct accounts, every lookup is
\* in bounds and no Address is in two phase-2 batches.
C10_Accounts == Phase2Accounts(Max(0, Min(mModify, nAccounts)))
C10_Witness ==
    /\ pc = "done" /\ nAccounts = 3 /\ mModify = 2 /\ kCommit = 1
    /\ Len(Phase2Keys(1)) = 2
    /\ indices[1] # 0
====
